---- MODULE Spec2Model ----
(***************************************************************************)
(* Model of ai_service/app.py: the start-up block (label table, model      *)
(* construction and checkpoint loading, transform) and the /predict        *)
(* handler, run by several requests in flight at once.                     *)
(*                                                                         *)
(* Text is modelled as a sequence of one-character strings, so that        *)
(* strip(), readlines() and the "Class {k}" formatting are computed.       *)
(***************************************************************************)
EXTENDS Integers, Sequences, FiniteSets, TLC

VARIABLES
    phase,        \* position of the module-level start-up code
    device,       \* line 24: "cuda" or "cpu"
    classesFile,  \* the classes.txt resource on disk
    modelFile,    \* the best_model.pth resource on disk
    CLASS_NAMES,  \* line 28: the label table
    model,        \* line 62: the process-wide model reference
    transform,    \* line 78: the preprocessing pipeline
    req           \* the requests in flight, one record per request

vars == <<phase, device, classesFile, modelFile, CLASS_NAMES, model, transform, req>>

(* ------------------------------ bounds -------------------------------- *)
\* requests that may be in flight at once
NReq == 2
\* largest class index the forward pass is let to return
MaxIdx == 2
\* longest label file (in characters) of the label-loading specification
MaxLen == 4

Requests == 1..NReq

(* --------------------------- program constants ------------------------ *)
NUM_CLASSES == 300
ResizeEdge == 345
CropSize == 300

(* ------------------------------- text --------------------------------- *)
NL == "\n"
Whitespace == {" ", NL}
Alphabet == {"a", "b", " ", NL}

RECURSIVE LStrip(_)
LStrip(s) ==
    IF s # <<>> /\ Head(s) \in Whitespace THEN LStrip(Tail(s)) ELSE s

RECURSIVE RStrip(_)
RStrip(s) ==
    IF s # <<>> /\ s[Len(s)] \in Whitespace
    THEN RStrip(SubSeq(s, 1, Len(s) - 1))
    ELSE s

\* str.strip()
Strip(s) == RStrip(LStrip(s))

\* f.readlines(): the lines of the text, each keeping its newline
RECURSIVE ReadLinesFrom(_, _)
ReadLinesFrom(s, cur) ==
    IF s = <<>>
    THEN IF cur = <<>> THEN <<>> ELSE <<cur>>
    ELSE IF Head(s) = NL
         THEN <<Append(cur, NL)>> \o ReadLinesFrom(Tail(s), <<>>)
         ELSE ReadLinesFrom(Tail(s), Append(cur, Head(s)))

ReadLines(s) == ReadLinesFrom(s, <<>>)

LineKept_Unstripped(line) == line # <<>>

\* line 32, "if line.strip()": a non-empty str is truthy
LineKept(line) == Strip(line) # <<>>

\* [line.strip() for line in lines if line.strip()]
RECURSIVE StripNonEmpty(_)
StripNonEmpty(lines) ==
    IF lines = <<>>
    THEN <<>>
    ELSE IF LineKept(Head(lines))
         THEN <<Strip(Head(lines))>> \o StripNonEmpty(Tail(lines))
         ELSE StripNonEmpty(Tail(lines))

DigitChars == <<"0", "1", "2", "3", "4", "5", "6", "7", "8", "9">>

\* str(n) for n >= 0
RECURSIVE Digits(_)
Digits(n) ==
    IF n < 10
    THEN <<DigitChars[n + 1]>>
    ELSE Digits(n \div 10) \o <<DigitChars[(n % 10) + 1]>>

ClassPrefix == <<"C", "l", "a", "s", "s", " ">>

(* --------------------------- label loading ---------------------------- *)
\* the value CLASS_NAMES has after lines 28-35, for a file on disk
LoadedClassNames(file) ==
    IF file.exists /\ file.readable
    THEN StripNonEmpty(ReadLines(file.content))
    ELSE <<>>

MissingFile == [exists |-> FALSE, readable |-> FALSE, content |-> <<>>]
UnreadableFile(c) == [exists |-> TRUE, readable |-> FALSE, content |-> c]
TextFile(c) == [exists |-> TRUE, readable |-> TRUE, content |-> c]

(* ------------------------------ start-up ------------------------------ *)
\* the value None of the model reference
None ==
    [isNone |-> TRUE, weights |-> "none", training |-> FALSE,
     device |-> "none", bnBatches |-> 0, outputs |-> 0]

\* get_model(num_classes): a freshly constructed torch module is in training
\* mode, lives on the CPU, and has never run a batch; its backbone weights
\* are the ImageNet ones, or random when those cannot be had (lines 43-49).
get_model(num_classes, pretrainedAvailable) ==
    [isNone |-> FALSE,
     weights |-> IF pretrainedAvailable THEN "imagenet" ELSE "random",
     training |-> TRUE,
     device |-> "cpu",
     bnBatches |-> 0,
     outputs |-> num_classes]

TheTransform ==
    [resize |-> ResizeEdge, crop |-> CropSize,
     mean |-> <<485, 456, 406>>, std |-> <<229, 224, 225>>]

NoTransform == [resize |-> 0, crop |-> 0, mean |-> <<>>, std |-> <<>>]

\* the label files the whole-service specification starts from
ClassesFileSamples ==
    { MissingFile,
      UnreadableFile(<<"a", NL>>),
      TextFile(<<"a", " ", NL, NL, "b", NL>>) }

ModelFileKinds == {"missing", "corrupt", "mismatch", "ok"}

NoFetch == [status |-> 0, content |-> "none"]
NoResp == [status |-> 0, payload |-> [none |-> TRUE]]
NoUrl == [type |-> "unset", str |-> "", num |-> 0]
NoBody == [kind |-> "none", url |-> NoUrl]

IdleRequest ==
    [pc |-> "idle", body |-> NoBody, url |-> NoUrl, fetched |-> NoFetch,
     gets |-> 0, fwd |-> 0, idx |-> -1, resp |-> NoResp]

Init ==
    /\ phase = "L28"
    /\ device \in {"cuda", "cpu"}
    /\ classesFile \in ClassesFileSamples
    /\ modelFile \in ModelFileKinds
    /\ CLASS_NAMES = <<>>
    /\ model = None
    /\ transform = NoTransform
    /\ req = [r \in Requests |-> IdleRequest]

\* lines 28-35
LoadClassNames ==
    /\ phase = "L28"
    /\ CLASS_NAMES' = LoadedClassNames(classesFile)
    /\ phase' = "L62"
    /\ UNCHANGED <<device, classesFile, modelFile, model, transform, req>>

\* lines 62-64 and 71-72: model = None, then os.path.exists(MODEL_FILE)
CheckModelFile ==
    /\ phase = "L62"
    /\ model' = None
    /\ phase' = IF modelFile # "missing" THEN "L65" ELSE "L78"
    /\ UNCHANGED <<device, classesFile, modelFile, CLASS_NAMES, transform, req>>

\* line 65: model = get_model(NUM_CLASSES)
BuildModel ==
    /\ phase = "L65"
    /\ \E pretrainedAvailable \in BOOLEAN :
          model' = get_model(NUM_CLASSES, pretrainedAvailable)
    /\ phase' = "L67"
    /\ UNCHANGED <<device, classesFile, modelFile, CLASS_NAMES, transform, req>>

\* where start-up goes after torch.load at line 67: an unreadable checkpoint
\* raises, and the except at lines 73-74 only prints
AfterTorchLoad == IF modelFile = "corrupt" THEN "L78" ELSE "L68"

TorchLoad ==
    /\ phase = "L67"
    /\ phase' = AfterTorchLoad
    /\ UNCHANGED <<device, classesFile, modelFile, CLASS_NAMES, model, transform, req>>

\* line 68: model.load_state_dict(checkpoint); names or shapes that do not
\* match raise, and the except at lines 73-74 only prints
LoadStateDict ==
    /\ phase = "L68"
    /\ IF modelFile = "mismatch"
       THEN /\ phase' = "L78"
            /\ UNCHANGED model
       ELSE /\ phase' = "L69"
            /\ model' = [model EXCEPT !.weights = "trained"]
    /\ UNCHANGED <<device, classesFile, modelFile, CLASS_NAMES, transform, req>>

\* line 69: model = model.to(device).eval(); moving to the GPU can raise
ToDeviceEval ==
    /\ phase = "L69"
    /\ \E moved \in IF device = "cuda" THEN BOOLEAN ELSE {TRUE} :
          IF moved
          THEN model' = [model EXCEPT !.device = device, !.training = FALSE]
          ELSE UNCHANGED model
    /\ phase' = "L78"
    /\ UNCHANGED <<device, classesFile, modelFile, CLASS_NAMES, transform, req>>

\* lines 78-86, after which the module is imported and requests are served
BuildTransform ==
    /\ phase = "L78"
    /\ transform' = TheTransform
    /\ phase' = "serving"
    /\ UNCHANGED <<device, classesFile, modelFile, CLASS_NAMES, model, req>>

(* ------------------------------ requests ------------------------------ *)
\* JSON values a body may carry under "url"
Absent == [type |-> "absent", str |-> "", num |-> 0]
JNull == [type |-> "null", str |-> "", num |-> 0]
JStr(s) == [type |-> "str", str |-> s, num |-> 0]
JInt(n) == [type |-> "int", str |-> "", num |-> n]

GoodUrl == "http://example.com/x.jpg"

UrlValues ==
    {Absent, JNull, JStr(""), JInt(123), JStr("not a url"), JStr(GoodUrl)}

\* request bodies: not JSON at all, the JSON values null and [], JSON objects
Bodies ==
    {[kind |-> k, url |-> Absent] : k \in {"notjson", "null", "list"}}
        \cup {[kind |-> "dict", url |-> u] : u \in UrlValues}

\* data.get('url'): None when the key is absent
DictGet(body) == IF body.url.type = "absent" THEN JNull ELSE body.url

\* Python truthiness of the values above
Truthy(v) ==
    \/ v.type = "str" /\ v.str # ""
    \/ v.type = "int" /\ v.num # 0

\* requests.get prepares the URL before sending anything: str(url) must have
\* an http(s) scheme and a host, else it raises without touching the network
Sendable(v) == IF v.type = "str" THEN v.str = GoodUrl ELSE FALSE

\* what the server at the URL may answer; the body is an image or it is not
FetchReplies ==
    [status : {200, 404}, content : {"image", "garbage"}]

FetchErrors == {"ConnectionError", "Timeout"}

\* the probability of the scenario of the specification (0.87234), in
\* hundredths of a percent
Scores == {8723}

Min(a, b) == IF a < b THEN a ELSE b

\* torch.max(probs, 1) over NUM_CLASSES outputs
ClassIndices == 0..Min(MaxIdx, NUM_CLASSES - 1)

LabelFor_OffByOne(class_idx, names) ==
    IF class_idx + 1 < Len(names)
    THEN names[class_idx + 1]
    ELSE ClassPrefix \o Digits(class_idx)

\* line 122
LabelFor(class_idx, names) ==
    IF class_idx < Len(names)
    THEN names[class_idx + 1]
    ELSE ClassPrefix \o Digits(class_idx)

TwoDigits(n) == IF n < 10 THEN <<"0">> \o Digits(n) ELSE Digits(n)

\* line 126: f"{score:.2%}"
FormatPercent(score) ==
    Digits(score \div 100) \o <<".">> \o TwoDigits(score % 100) \o <<"%">>

\* the four JSON responses of the handler
NotInitialized == [status |-> 500, payload |-> [error |-> "AI Engine not initialized"]]
NoUrlProvided == [status |-> 400, payload |-> [error |-> "No URL provided"]]
FailureResponse(e) == [status |-> 500, payload |-> [error |-> e]]
SuccessResponse(label, score) ==
    [status |-> 200,
     payload |-> [class |-> label, confidence |-> FormatPercent(score)]]

\* a request record once the handler has returned response
Return(q, response) == [q EXCEPT !.pc = "done", !.resp = response]

\* what a fault that escapes the handler would give the caller: the
\* framework's own error page, none of the handler's JSON payloads
Unhandled == [status |-> 500, payload |-> [html |-> "Internal Server Error"]]

ExceptHandler_Propagates(q, e) == Return(q, Unhandled)

\* lines 129-131: except Exception as e, answered with str(e) and 500
ExceptHandler(q, e) == Return(q, FailureResponse(e))

Shared == <<device, classesFile, modelFile, CLASS_NAMES, model, transform>>

CheckModel_NoNoneCheck(r) ==
    /\ phase = "serving"
    /\ req[r].pc = "idle"
    /\ \E b \in Bodies : req' = [req EXCEPT ![r].pc = "L99", ![r].body = b]
    /\ UNCHANGED <<phase, Shared>>

\* lines 89-95: predict() is entered with the body of a POST /predict (the
\* module is imported before any request is served), and looks at model
CheckModel(r) ==
    /\ phase = "serving"
    /\ req[r].pc = "idle"
    /\ \E b \in Bodies :
          IF model = None
          THEN req' = [req EXCEPT ![r] = Return([@ EXCEPT !.body = b], NotInitialized)]
          ELSE req' = [req EXCEPT ![r].pc = "L99", ![r].body = b]
    /\ UNCHANGED <<phase, Shared>>

\* lines 99-102: request.json raises on a body that is not JSON, data.get
\* raises on a JSON value that is not an object
ValidateInput(r) ==
    /\ req[r].pc = "L99"
    /\ LET body == req[r].body IN
       CASE body.kind = "notjson" ->
              req' = [req EXCEPT ![r] = ExceptHandler(@, "BadRequest")]
         [] body.kind \in {"null", "list"} ->
              req' = [req EXCEPT ![r] = ExceptHandler(@, "AttributeError")]
         [] OTHER ->
              IF ~Truthy(DictGet(body))
              THEN req' = [req EXCEPT ![r] = Return(@, NoUrlProvided)]
              ELSE req' = [req EXCEPT ![r].pc = "L105", ![r].url = DictGet(body)]
    /\ UNCHANGED <<phase, Shared>>

Fetch_Retrying(r) ==
    /\ req[r].pc = "L105"
    /\ IF ~Sendable(req[r].url)
       THEN req' = [req EXCEPT ![r] = ExceptHandler(@, "MissingSchema")]
       ELSE \/ \E e \in FetchErrors :
                  req' = [req EXCEPT ![r] = ExceptHandler([@ EXCEPT !.gets = @ + 2], e)]
            \/ \E reply \in FetchReplies :
                  req' = [req EXCEPT ![r].pc = "L106", ![r].gets = @ + 1,
                                     ![r].fetched = reply]
    /\ UNCHANGED <<phase, Shared>>

\* line 105: requests.get(image_url, timeout=10): one GET, which raises on a
\* network error or on the timeout and returns the reply whatever its status
Fetch(r) ==
    /\ req[r].pc = "L105"
    /\ IF ~Sendable(req[r].url)
       THEN req' = [req EXCEPT ![r] = ExceptHandler(@, "MissingSchema")]
       ELSE \/ \E e \in FetchErrors :
                  req' = [req EXCEPT ![r] = ExceptHandler([@ EXCEPT !.gets = @ + 1], e)]
            \/ \E reply \in FetchReplies :
                  req' = [req EXCEPT ![r].pc = "L106", ![r].gets = @ + 1,
                                     ![r].fetched = reply]
    /\ UNCHANGED <<phase, Shared>>

\* line 106: Image.open(BytesIO(response.content)).convert('RGB'); the
\* status of the reply is never looked at
Decode(r) ==
    /\ req[r].pc = "L106"
    /\ IF req[r].fetched.content = "image"
       THEN req' = [req EXCEPT ![r].pc = "L109"]
       ELSE req' = [req EXCEPT ![r] = ExceptHandler(@, "UnidentifiedImageError")]
    /\ UNCHANGED <<phase, Shared>>

\* the module after one forward pass: in training mode the batch-norm layers
\* update their running statistics (torch.no_grad does not stop that); in
\* evaluation mode nothing is written
AfterForward(m) ==
    IF m.training THEN [m EXCEPT !.bnBatches = @ + 1] ELSE m

\* lines 109-127: transform, forward pass, softmax and max, label, response;
\* the tensor work can raise (a device error)
Predict(r) ==
    /\ req[r].pc = "L109"
    /\ \/ /\ req' = [req EXCEPT ![r] = ExceptHandler(@, "RuntimeError")]
          /\ UNCHANGED model
       \/ /\ model' = AfterForward(model)
          /\ \E class_idx \in ClassIndices, score \in Scores :
                req' = [req EXCEPT ![r] =
                          Return([@ EXCEPT !.fwd = @ + 1, !.idx = class_idx],
                                 SuccessResponse(LabelFor(class_idx, CLASS_NAMES), score))]
    /\ UNCHANGED <<phase, device, classesFile, modelFile, CLASS_NAMES, transform>>

Startup ==
    \/ LoadClassNames
    \/ CheckModelFile
    \/ BuildModel
    \/ TorchLoad
    \/ LoadStateDict
    \/ ToDeviceEval
    \/ BuildTransform

Next ==
    \/ Startup
    \/ \E r \in Requests :
          \/ CheckModel(r)
          \/ ValidateInput(r)
          \/ Fetch(r)
          \/ Decode(r)
          \/ Predict(r)

Spec == Init /\ [][Next]_vars

(* ------------------- label loading on its own ------------------------- *)
Texts == UNION {[1..n -> Alphabet] : n \in 0..MaxLen}

LabelFiles ==
    {MissingFile} \cup {UnreadableFile(c) : c \in Texts} \cup {TextFile(c) : c \in Texts}

InitLabels ==
    /\ phase = "L28"
    /\ device = "cpu"
    /\ classesFile \in LabelFiles
    /\ modelFile = "missing"
    /\ CLASS_NAMES = <<>>
    /\ model = None
    /\ transform = NoTransform
    /\ req = [r \in Requests |-> IdleRequest]

NextLabels == LoadClassNames

SpecLabels == InitLabels /\ [][NextLabels]_vars

(* ------------------------------ properties ---------------------------- *)
Serving == phase = "serving"
Done(r) == req[r].pc = "done"

\* the checkpoint was read, applied, moved and switched to evaluation
ModelLoaded == model # None /\ model.weights = "trained" /\ ~model.training

CheckpointLoadFails == modelFile \in {"missing", "corrupt", "mismatch"}

\* C1: when checkpoint loading fails at start-up (file missing, unreadable,
\* or not matching the architecture), the model reference is None once
\* start-up is over and every request is answered 500 "AI Engine not
\* initialized".
C1_FailedLoadLeavesModelUnset ==
    (Serving /\ CheckpointLoadFails) =>
        /\ model = None
        /\ \A r \in Requests : Done(r) => req[r].resp = NotInitialized

\* C2: whenever requests are served and the model reference is set, the
\* model is in evaluation mode.
C2_SetModelIsInEvaluationMode ==
    (Serving /\ model # None) => ~model.training

\* C3: with the model reference unset, every request, whatever its body,
\* ends with 500 "AI Engine not initialized", before any validation, and
\* starts neither a fetch nor a forward pass.
C3_UnsetModelRefusesEveryRequest ==
    (Serving /\ model = None) =>
        \A r \in Requests :
            /\ req[r].pc \in {"idle", "done"}
            /\ req[r].gets = 0
            /\ req[r].fwd = 0
            /\ req[r].url = NoUrl
            /\ Done(r) => req[r].resp = NotInitialized

C3_Witness ==
    /\ model = None
    /\ \E r1, r2 \in Requests :
          /\ Done(r1) /\ req[r1].body = [kind |-> "dict", url |-> JStr(GoodUrl)]
          /\ Done(r2) /\ req[r2].body.kind = "notjson"
          /\ req[r1].resp = NotInitialized /\ req[r2].resp = NotInitialized

UrlFieldAbsent(body) == body.kind # "dict" \/ body.url.type = "absent"

\* C4: with the model loaded, every request whose body carries no url field
\* is answered 400 "No URL provided".
C4_AbsentUrlIsBadRequest ==
    \A r \in Requests :
        (ModelLoaded /\ Done(r) /\ UrlFieldAbsent(req[r].body)) =>
            req[r].resp = NoUrlProvided

\* the fetch of a request that supplied a URL failed: nothing came back, or
\* a reply that is not 2xx, or content that is not an image
FetchFailed(q) ==
    /\ q.url # NoUrl
    /\ q.pc \in {"L106", "L109", "done"}
    /\ \/ q.fetched = NoFetch
       \/ q.fetched.status # 200
       \/ q.fetched.content # "image"

\* C5: with the model loaded and a URL supplied, a request whose fetch fails
\* (network error, timeout, non-2xx reply, unreadable content) ends with 500
\* and an error payload, never with the 200 success response.
C5_FetchFailureIsNeverSuccess ==
    \A r \in Requests :
        (ModelLoaded /\ Done(r) /\ FetchFailed(req[r])) =>
            /\ req[r].resp.status = 500
            /\ DOMAIN req[r].resp.payload = {"error"}

FailureDescriptions ==
    {"BadRequest", "AttributeError", "MissingSchema", "UnidentifiedImageError",
     "RuntimeError"} \cup FetchErrors

IsSuccess(x) ==
    /\ x.status = 200
    /\ DOMAIN x.payload = {"class", "confidence"}

IsBadRequest(x) ==
    /\ x.status = 400
    /\ DOMAIN x.payload = {"error"}
    /\ x.payload.error = "No URL provided"

IsNotInitialized(x) ==
    /\ x.status = 500
    /\ DOMAIN x.payload = {"error"}
    /\ x.payload.error = "AI Engine not initialized"

IsFailure(x) ==
    /\ x.status = 500
    /\ DOMAIN x.payload = {"error"}
    /\ x.payload.error \in FailureDescriptions

Shapes(x) ==
    {k \in {"success", "bad request", "not initialized", "failure"} :
        \/ k = "success" /\ IsSuccess(x)
        \/ k = "bad request" /\ IsBadRequest(x)
        \/ k = "not initialized" /\ IsNotInitialized(x)
        \/ k = "failure" /\ IsFailure(x)}

\* C6: every request that completes ends in exactly one of the four
\* documented responses; a failure raised in the handler never reaches the
\* caller as anything else.
C6_EveryResponseIsDocumented ==
    \A r \in Requests :
        /\ req[r].pc \in {"idle", "L99", "L105", "L106", "L109", "done"}
        /\ Done(r) => Cardinality(Shapes(req[r].resp)) = 1
        /\ ~Done(r) => req[r].resp = NoResp

C6_Witness ==
    \E r1, r2 \in Requests :
        /\ Done(r1) /\ req[r1].resp = FailureResponse("UnidentifiedImageError")
        /\ Done(r2) /\ IsSuccess(req[r2].resp)

DigitValue(c) == CHOOSE d \in 0..9 : DigitChars[d + 1] = c

IsNumeral(s) ==
    /\ s # <<>>
    /\ \A i \in 1..Len(s) : \E d \in 0..9 : DigitChars[d + 1] = s[i]

RECURSIVE NumeralValue(_)
NumeralValue(s) ==
    IF s = <<>>
    THEN 0
    ELSE 10 * NumeralValue(SubSeq(s, 1, Len(s) - 1)) + DigitValue(s[Len(s)])

\* s is the text "Class k"
IsClassPlaceholder(s, k) ==
    /\ Len(s) > Len(ClassPrefix)
    /\ SubSeq(s, 1, Len(ClassPrefix)) = ClassPrefix
    /\ LET numeral == SubSeq(s, Len(ClassPrefix) + 1, Len(s)) IN
          /\ IsNumeral(numeral)
          /\ NumeralValue(numeral) = k
          /\ (Len(numeral) > 1 => numeral[1] # "0")

\* C7: for a predicted index k and any label table, the response label is
\* the table's k-th entry when k is below the table length and the text
\* "Class k" otherwise, and the request ends with the success response.
C7_LabelIsEntryOrPlaceholder ==
    \A r \in Requests :
        req[r].idx >= 0 =>
            /\ Done(r)
            /\ IsSuccess(req[r].resp)
            /\ (req[r].idx < Len(CLASS_NAMES) =>
                    req[r].resp.payload.class = CLASS_NAMES[req[r].idx + 1])
            /\ (req[r].idx >= Len(CLASS_NAMES) =>
                    IsClassPlaceholder(req[r].resp.payload.class, req[r].idx))

C7_Witness ==
    /\ CLASS_NAMES # <<>>
    /\ \E r1, r2 \in Requests :
          /\ Done(r1) /\ req[r1].idx = Len(CLASS_NAMES) - 1
          /\ Done(r2) /\ req[r2].idx = Len(CLASS_NAMES)

\* the stretches f..l of the text c that are labels, by position: both ends
\* are not whitespace, no newline lies inside, and only blanks lie between
\* the stretch and the newlines (or ends of text) around it
LabelStretches(c) ==
    {fl \in (1..Len(c)) \X (1..Len(c)) :
        /\ fl[1] <= fl[2]
        /\ c[fl[1]] \notin Whitespace
        /\ c[fl[2]] \notin Whitespace
        /\ \A i \in fl[1]..fl[2] : c[i] # NL
        /\ \A i \in 1..(fl[1] - 1) :
              (\A j \in i..(fl[1] - 1) : c[j] # NL) => c[i] \in Whitespace
        /\ \A i \in (fl[2] + 1)..Len(c) :
              (\A j \in (fl[2] + 1)..i : c[j] # NL) => c[i] \in Whitespace}

\* the place of a stretch among the stretches, in file order
Rank(fl, stretches) == 1 + Cardinality({x \in stretches : x[1] < fl[1]})

\* C8: the label table is exactly the trimmed non-blank lines of the label
\* file, in file order; a missing or unreadable file gives the empty table,
\* and start-up goes on.
C8_LabelsAreTrimmedNonBlankLines ==
    /\ phase = "L28" => ENABLED LoadClassNames
    /\ phase # "L28" =>
          IF classesFile.exists /\ classesFile.readable
          THEN LET c == classesFile.content
                   stretches == LabelStretches(c)
               IN /\ Len(CLASS_NAMES) = Cardinality(stretches)
                  /\ \A fl \in stretches :
                        CLASS_NAMES[Rank(fl, stretches)] = SubSeq(c, fl[1], fl[2])
          ELSE CLASS_NAMES = <<>>

C8_Witness ==
    /\ phase = "L62"
    /\ classesFile = TextFile(<<"a", NL, NL, "b">>)
    /\ CLASS_NAMES = << <<"a">>, <<"b">> >>

\* C9: once start-up is over, no step of any request changes the shared
\* state (model reference with its mode and weights, label table, device,
\* transform).
C9_RequestsLeaveSharedStateUnchanged ==
    [][Serving => Shared' = Shared]_vars

\* C10: a request issues at most one outbound GET, and only after the model
\* check and the URL validation have passed; a request turned down for a
\* missing or malformed url issues none and runs no forward pass.
C10_AtMostOneGetAfterBothChecks ==
    \A r \in Requests :
        /\ req[r].gets <= 1
        /\ req[r].gets = 1 =>
              /\ model # None
              /\ req[r].body.kind = "dict"
              /\ Truthy(DictGet(req[r].body))
              /\ req[r].url = DictGet(req[r].body)
              /\ req[r].pc \in {"L106", "L109", "done"}
        /\ req[r].pc \in {"L99", "L105"} => req[r].gets = 0
        /\ (Done(r) /\ ~Sendable(DictGet(req[r].body))) =>
              /\ req[r].gets = 0
              /\ req[r].fwd = 0
        /\ (Done(r) /\ req[r].body.kind # "dict") =>
              /\ req[r].gets = 0
              /\ req[r].fwd = 0

C10_Witness ==
    \E r1, r2 \in Requests :
        /\ Done(r1) /\ req[r1].gets = 1
        /\ Done(r2) /\ req[r2].resp = NoUrlProvided /\ req[r2].gets = 0

====
